---- MODULE Spec2Model ----
(***************************************************************************)
(* Control-flow-graph construction and cyclomatic-complexity scoring of    *)
(* ccofp.py: the PathGraph adjacency structure, the PathGraphingAstVisitor *)
(* handlers driven by ASTVisitor.dispatch, and the CCOFP scoring pass.     *)
(*                                                                         *)
(* The recursive tree walk is unfolded into a stack of handler frames.     *)
(* The syntax tree is an input: it is chosen node by node while it is      *)
(* walked, in source order, one source line per node.                      *)
(*                                                                         *)
(* Python strings are TLA+ strings, None is the node identity 0 (for a     *)
(* PathNode) or the record NoGraph (for a PathGraph), a dict is a function *)
(* whose DOMAIN is its key set, an insertion-ordered dict is a sequence of *)
(* [key, val] records.  An uncaught exception freezes the visitor: err     *)
(* names it and stack keeps the frames that were active (the traceback).   *)
(***************************************************************************)
EXTENDS Integers, Sequences, FiniteSets, TLC

\* ---------------------------------------------------------------- bounds
\* syntax-tree nodes dispatched on one visitor; also the last source line
MaxNodes == 3
\* statements in one body (node.body)
MaxBody == 2
\* connect calls made on the free-standing PathGraph of SpecGraph
MaxConnect == 4
\* largest threshold an invocation of the scoring pass is given
MaxThreshold == 1

\* ---------------------------------------------------------------- inputs
FuncNames == {"f", "g"}
ClassNames == {"A", "B"}
\* concrete node classes; "Assign" stands for every statement class that has
\* no visit<Class> method, "Module" for the root the parser returns
LoopKinds == {"For", "While", "AsyncFor"}
FuncKinds == {"FunctionDef", "AsyncFunctionDef"}
StmtKinds == FuncKinds \cup LoopKinds \cup {"ClassDef", "If", "Assign"}
Kinds == StmtKinds \cup {"Module"}
\* PathNode identities of the free-standing PathGraph of SpecGraph
GraphNodes == {1, 2, 3}
\* the two concurrent invocations of the scoring pass
Invocations == {1, 2}

None == 0

VARIABLES
    graph,          \* self.graph: the PathGraph being populated, or NoGraph
    tail,           \* self.tail: identity of the open tail PathNode, or None
    classname,      \* self.classname
    graphs,         \* self.graphs: insertion-ordered dict key -> PathGraph
    cache,          \* self._cache: node class -> handler
    node,           \* self.node: the node dispatched last
    stack,          \* handler frames of the walk in progress, outermost first
    err,            \* "" or the exception that left the visitor
    lineno,         \* source line of the next node of the tree
    nextId,         \* identity of the next PathNode object
    ndec,           \* history: decision constructs visited in the open graph
    ntop,           \* history: functions and orphan constructs that opened a graph
    sealed,         \* history: names of the registered graphs, in sealing order
    last,           \* history: the loop or conditional that returned in the last step
    pg,             \* SpecGraph: a free-standing PathGraph
    ever,           \* SpecGraph: nodes passed to connect so far
    nconnect,       \* SpecGraph: connect calls so far
    max_complexity, \* CCOFP.max_complexity (class attribute)
    own,            \* SpecRun: threshold each invocation was given
    seen,           \* SpecRun: threshold each invocation's run read
    rpc,            \* SpecRun: position of each invocation
    yielded         \* SpecRun: records each invocation's run has yielded

visitorVars == <<graph, tail, classname, graphs, cache, node, stack, err,
                 lineno, nextId, ndec, ntop, sealed, last>>
graphVars == <<pg, ever, nconnect>>
runVars == <<max_complexity, own, seen, rpc, yielded>>
vars == <<visitorVars, graphVars, runVars>>

\* ------------------------------------------------------------ Graph Model
\* PathNode(name, look): only its identity (id(self)) matters to the graph
PathNode(id) == id

NoGraph ==
    [open |-> FALSE, name |-> "", entity |-> "", lineno |-> 0, column |-> 0,
     nodes |-> <<>>]

PathGraph(name, entity, line, column) ==
    [open |-> TRUE, name |-> name, entity |-> entity, lineno |-> line,
     column |-> column, nodes |-> <<>>]

\* connect without its second statement (the destination is not made a key)
connect_NoDestKey(nodes, n1, n2) ==
    LET d == IF n1 \in DOMAIN nodes THEN nodes ELSE nodes @@ (n1 :> <<>>)
    IN  [d EXCEPT ![n1] = Append(@, n2)]

\* self.nodes[n1].append(n2) on a defaultdict(list), then self.nodes[n2] = []
connect(nodes, n1, n2) ==
    LET d == IF n1 \in DOMAIN nodes THEN nodes ELSE nodes @@ (n1 :> <<>>)
        a == [d EXCEPT ![n1] = Append(@, n2)]
    IN  IF n2 \in DOMAIN a THEN [a EXCEPT ![n2] = <<>>]
        ELSE a @@ (n2 :> <<>>)

RECURSIVE SumLen(_, _)
SumLen(nodes, keys) ==
    IF keys = {} THEN 0
    ELSE LET k == CHOOSE x \in keys : TRUE
         IN  Len(nodes[k]) + SumLen(nodes, keys \ {k})

\* num_edges - num_nodes + 2
complexity(g) ==
    LET num_edges == SumLen(g.nodes, DOMAIN g.nodes)
        num_nodes == Cardinality(DOMAIN g.nodes)
    IN  num_edges - num_nodes + 2

connectGraph(g, n1, n2) == [g EXCEPT !.nodes = connect(g.nodes, n1, n2)]

\* ------------------------------------------------- insertion-ordered dict
HasKey(d, k) == \E i \in DOMAIN d : d[i].key = k

\* d[k] = v: a new key goes last, an existing key keeps its place
setitem(d, k, v) ==
    IF HasKey(d, k)
    THEN [i \in DOMAIN d |-> IF d[i].key = k THEN [key |-> k, val |-> v] ELSE d[i]]
    ELSE Append(d, [key |-> k, val |-> v])

\* ------------------------------------------------------------- the tree
\* the nodes of class k the parser can put at the current line; col_offset
\* is the nesting depth, orelse says whether node.orelse is non-empty
Nodes(k) ==
    { [kind |-> k, name |-> nm, lineno |-> lineno, col_offset |-> Len(stack),
       orelse |-> oe] :
        nm \in (IF k \in FuncKinds THEN FuncNames
                ELSE IF k = "ClassDef" THEN ClassNames ELSE {""}),
        oe \in (IF k \in LoopKinds \cup {"If"} THEN BOOLEAN ELSE {FALSE}) }

NoNode == [kind |-> "", name |-> "", lineno |-> 0, col_offset |-> 0, orelse |-> FALSE]

NoFrame ==
    [h |-> "", construct |-> "", name |-> "", orelse |-> FALSE, pathnode |-> None,
     old_classname |-> "", orphan |-> FALSE, n |-> 0, c0 |-> 0, d0 |-> 0, k0 |-> 0]

NoLast ==
    [construct |-> "", orphan |-> FALSE, before |-> 0, after |-> 0, inner |-> 0,
     n0 |-> 0]

Top == stack[Len(stack)]
Rest == SubSeq(stack, 1, Len(stack) - 1)

\* what the history keeps of a graph when it is registered
Seal(g, key, d) ==
    [name |-> g.name, key |-> key, entity |-> g.entity, score |-> complexity(g),
     nnodes |-> Cardinality(DOMAIN g.nodes), ndec |-> d]

\* --------------------------------------------------- CFG-Building Visitor
\* appendPathNode creating a node although no tail is open
appendPathNode_NoGuard(g, t, id) ==
    [graph |-> connectGraph(g, t, PathNode(id)), tail |-> PathNode(id),
     pathnode |-> PathNode(id), nextId |-> id + 1]

\* appendPathNode handing out a node object that the next PathNode(...) call
\* yields again
appendPathNode_ReusedNode(g, t, id) ==
    IF t = None
    THEN [graph |-> g, tail |-> t, pathnode |-> None, nextId |-> id]
    ELSE [graph |-> connectGraph(g, t, PathNode(id)), tail |-> PathNode(id),
          pathnode |-> PathNode(id), nextId |-> id]

\* returns the updated graph and tail, the new PathNode (None when there is
\* no tail to attach to) and the next free identity
appendPathNode(g, t, id) ==
    IF t = None
    THEN [graph |-> g, tail |-> t, pathnode |-> None, nextId |-> id]
    ELSE [graph |-> connectGraph(g, t, PathNode(id)), tail |-> PathNode(id),
          pathnode |-> PathNode(id), nextId |-> id + 1]

\* visitFunctionDef up to the traversal of node.body
visitFunctionDef(n, stk) ==
    LET entity == IF classname # "" THEN classname \o ", " \o n.name ELSE n.name
        name == ToString(n.lineno) \o ", " \o ToString(n.col_offset) \o ", " \o entity
        r == appendPathNode(graph, tail, nextId)
        fr == [NoFrame EXCEPT !.name = n.name, !.c0 = complexity(graph),
                              !.d0 = ndec, !.k0 = Cardinality(DOMAIN graph.nodes)]
    IN  IF graph.open
        THEN /\ graph' = r.graph
             /\ tail' = r.pathnode
             /\ nextId' = r.nextId
             /\ stack' = Append(stk, [fr EXCEPT !.h = "closure", !.pathnode = r.pathnode])
             /\ ndec' = ndec + 1
             /\ UNCHANGED <<classname, graphs, err, ntop, sealed>>
        ELSE /\ graph' = PathGraph(name, entity, n.lineno, n.col_offset)
             /\ tail' = PathNode(nextId)
             /\ nextId' = nextId + 1
             /\ stack' = Append(stk, [fr EXCEPT !.h = "function",
                                                !.pathnode = PathNode(nextId)])
             /\ ndec' = 0
             /\ ntop' = ntop + 1
             /\ UNCHANGED <<classname, graphs, err, sealed>>

\* visitClassDef up to the traversal of node.body
visitClassDef(n, stk) ==
    /\ classname' = classname \o n.name \o "."
    /\ stack' = Append(stk, [NoFrame EXCEPT !.h = "class", !.name = n.name,
                                            !.old_classname = classname])
    /\ UNCHANGED <<graph, tail, graphs, err, nextId, ndec, ntop, sealed>>

visitSimpleStatement(n, stk) ==
    LET r == appendPathNode(graph, tail, nextId)
    IN  /\ graph' = r.graph
        /\ tail' = r.tail
        /\ nextId' = r.nextId
        /\ stack' = stk
        /\ UNCHANGED <<classname, graphs, err, ndec, ntop, sealed>>

\* isinstance(node, ast.stmt): the module never binds the name ast, so the
\* test raises NameError for every node, before either branch
default(n, stk) ==
    /\ err' = "NameError"
    /\ stack' = stk
    /\ UNCHANGED <<graph, tail, classname, graphs, nextId, ndec, ntop, sealed>>

\* _subgraph and _subgraph_parse up to the traversal of node.body
_subgraph(n, name, stk) ==
    LET r == appendPathNode(graph, tail, nextId)
        fr == [NoFrame EXCEPT !.h = "subgraph", !.name = name, !.orelse = n.orelse,
                              !.construct = IF n.kind = "If" THEN "if" ELSE "loop",
                              !.c0 = complexity(graph), !.d0 = ndec,
                              !.k0 = Cardinality(DOMAIN graph.nodes)]
    IN  IF ~graph.open
        THEN /\ graph' = PathGraph(name, name, n.lineno, n.col_offset)
             /\ tail' = PathNode(nextId)
             /\ nextId' = nextId + 1
             /\ stack' = Append(stk, [fr EXCEPT !.orphan = TRUE,
                                                !.pathnode = PathNode(nextId)])
             /\ ndec' = 1
             /\ ntop' = ntop + 1
             /\ UNCHANGED <<classname, graphs, err, sealed>>
        ELSE /\ graph' = r.graph
             /\ tail' = r.pathnode
             /\ nextId' = r.nextId
             /\ stack' = Append(stk, [fr EXCEPT !.pathnode = r.pathnode])
             /\ ndec' = ndec + 1
             /\ UNCHANGED <<classname, graphs, err, ntop, sealed>>

visitLoop(n, stk) == _subgraph(n, "Loop " \o ToString(n.lineno), stk)

visitIf(n, stk) == _subgraph(n, "if " \o ToString(n.lineno), stk)

\* getattr(self.visitor, 'visit' + className, self.default)
getattr(k) ==
    IF k \in FuncKinds THEN "visitFunctionDef"
    ELSE IF k = "ClassDef" THEN "visitClassDef"
    ELSE IF k \in LoopKinds THEN "visitLoop"
    ELSE IF k = "If" THEN "visitIf"
    ELSE "default"

\* ASTVisitor.dispatch; stk is the caller's stack
dispatch(n, stk) ==
    LET meth == IF n.kind \in DOMAIN cache THEN cache[n.kind] ELSE getattr(n.kind)
    IN  /\ node' = n
        /\ cache' = IF n.kind \in DOMAIN cache THEN cache
                    ELSE cache @@ (n.kind :> meth)
        /\ lineno' = lineno + 1
        /\ CASE meth = "visitFunctionDef" -> visitFunctionDef(n, stk)
             [] meth = "visitClassDef" -> visitClassDef(n, stk)
             [] meth = "visitLoop" -> visitLoop(n, stk)
             [] meth = "visitIf" -> visitIf(n, stk)
             [] OTHER -> default(n, stk)

\* ASTVisitor.preorder: a traversal starts at a root of any class
preorder ==
    /\ stack = <<>> /\ err = "" /\ lineno <= MaxNodes
    /\ \E k \in Kinds : \E n \in Nodes(k) : dispatch(n, <<>>)
    /\ last' = NoLast
    /\ UNCHANGED <<graphVars, runVars>>

\* dispatch_list: the next statement of the body being traversed
dispatch_list ==
    /\ stack # <<>> /\ err = "" /\ lineno <= MaxNodes
    /\ Top.n < MaxBody
    /\ \E k \in StmtKinds : \E n \in Nodes(k) :
          dispatch(n, [stack EXCEPT ![Len(stack)].n = @ + 1])
    /\ last' = NoLast
    /\ UNCHANGED <<graphVars, runVars>>

\* a caller invoking the statement handler itself, between traversals
visitSimpleStatement_call ==
    /\ stack = <<>> /\ err = "" /\ lineno <= MaxNodes
    /\ \E n \in Nodes("Assign") :
          /\ visitSimpleStatement(n, <<>>)
          /\ lineno' = lineno + 1
    /\ UNCHANGED <<cache, node>>
    /\ last' = NoLast
    /\ UNCHANGED <<graphVars, runVars>>

\* visitFunctionDef registering the graph without line 99 (no reset)
visitFunctionDef_end_NoReset ==
    /\ stack # <<>> /\ err = "" /\ Top.h = "function"
    /\ graphs' = setitem(graphs, classname \o "-" \o Top.name, graph)
    /\ sealed' = Append(sealed, Seal(graph, classname \o "-" \o Top.name, ndec))
    /\ ndec' = 0
    /\ stack' = Rest
    /\ UNCHANGED <<graph, tail, classname, cache, node, err, lineno, nextId, ntop>>
    /\ last' = NoLast
    /\ UNCHANGED <<graphVars, runVars>>

\* visitFunctionDef after the body, no graph was open at entry: register, reset
visitFunctionDef_end ==
    /\ stack # <<>> /\ err = "" /\ Top.h = "function"
    /\ graphs' = setitem(graphs, classname \o "-" \o Top.name, graph)
    /\ sealed' = Append(sealed, Seal(graph, classname \o "-" \o Top.name, ndec))
    /\ graph' = NoGraph
    /\ tail' = None
    /\ ndec' = 0
    /\ stack' = Rest
    /\ UNCHANGED <<classname, cache, node, err, lineno, nextId, ntop>>
    /\ last' = NoLast
    /\ UNCHANGED <<graphVars, runVars>>

\* the closure branch returning without line 91 (the entry node is not
\* connected to the join node)
visitClosure_end_OneConnect ==
    /\ stack # <<>> /\ err = "" /\ Top.h = "closure"
    /\ LET bottom == PathNode(nextId)
       IN  /\ graph' = connectGraph(graph, tail, bottom)
           /\ tail' = bottom
           /\ nextId' = nextId + 1
    /\ stack' = Rest
    /\ UNCHANGED <<classname, graphs, cache, node, err, lineno, ndec, ntop,
                   sealed>>
    /\ last' = NoLast
    /\ UNCHANGED <<graphVars, runVars>>

\* visitFunctionDef after the body, closure branch: join tail and entry node
visitClosure_end ==
    /\ stack # <<>> /\ err = "" /\ Top.h = "closure"
    /\ LET bottom == PathNode(nextId)
       IN  /\ graph' = connectGraph(connectGraph(graph, tail, bottom),
                                    Top.pathnode, bottom)
           /\ tail' = bottom
           /\ nextId' = nextId + 1
    /\ stack' = Rest
    /\ UNCHANGED <<classname, graphs, cache, node, err, lineno, ndec, ntop,
                   sealed>>
    /\ last' = NoLast
    /\ UNCHANGED <<graphVars, runVars>>

\* visitClassDef returning without line 107 (the prefix is not restored)
visitClassDef_end_NoRestore ==
    /\ stack # <<>> /\ err = "" /\ Top.h = "class"
    /\ stack' = Rest
    /\ UNCHANGED <<graph, tail, classname, graphs, cache, node, err, lineno,
                   nextId, ndec, ntop, sealed>>
    /\ last' = NoLast
    /\ UNCHANGED <<graphVars, runVars>>

\* visitClassDef after the body
visitClassDef_end ==
    /\ stack # <<>> /\ err = "" /\ Top.h = "class"
    /\ classname' = Top.old_classname
    /\ stack' = Rest
    /\ UNCHANGED <<graph, tail, graphs, cache, node, err, lineno, nextId, ndec,
                   ntop, sealed>>
    /\ last' = NoLast
    /\ UNCHANGED <<graphVars, runVars>>

\* _subgraph_parse after the body (no caller passes extra_blocks), then the
\* rest of _subgraph; node.orels is no attribute of any node
_subgraph_parse_end ==
    /\ stack # <<>> /\ err = "" /\ Top.h = "subgraph"
    /\ LET pathnode == Top.pathnode
           bottom == PathNode(nextId)
           loose_ends == <<tail, pathnode>>
           joined == IF pathnode # None
                     THEN connectGraph(connectGraph(graph, loose_ends[1], bottom),
                                       loose_ends[2], bottom)
                     ELSE graph
           key == classname \o Top.name
       IN  IF Top.orelse
           THEN /\ tail' = pathnode
                /\ err' = "AttributeError"
                /\ UNCHANGED <<graph, graphs, stack, nextId, ndec, sealed>>
                /\ last' = NoLast
           ELSE /\ nextId' = IF pathnode # None THEN nextId + 1 ELSE nextId
                /\ last' = [construct |-> Top.construct, orphan |-> Top.orphan,
                            before |-> Top.c0, after |-> complexity(joined),
                            inner |-> ndec - Top.d0 - 1, n0 |-> Top.k0]
                /\ stack' = Rest
                /\ err' = err
                /\ IF Top.orphan
                   THEN /\ graphs' = setitem(graphs, key, joined)
                        /\ sealed' = Append(sealed, Seal(joined, key, ndec))
                        /\ graph' = NoGraph
                        /\ tail' = None
                        /\ ndec' = 0
                   ELSE /\ graph' = joined
                        /\ tail' = IF pathnode # None THEN bottom ELSE tail
                        /\ UNCHANGED <<graphs, sealed, ndec>>
    /\ UNCHANGED <<classname, cache, node, lineno, ntop>>
    /\ UNCHANGED <<graphVars, runVars>>

InitVisitor ==
    /\ graph = NoGraph
    /\ tail = None
    /\ classname = ""
    /\ graphs = <<>>
    /\ cache = <<>>
    /\ node = NoNode
    /\ stack = <<>>
    /\ err = ""
    /\ lineno = 1
    /\ nextId = 1
    /\ ndec = 0
    /\ ntop = 0
    /\ sealed = <<>>
    /\ last = NoLast

InitGraph ==
    /\ pg = PathGraph("", "", 0, 0)
    /\ ever = {}
    /\ nconnect = 0

InitRun ==
    /\ max_complexity = -1
    /\ own = [p \in Invocations |-> -1]
    /\ seen = [p \in Invocations |-> -1]
    /\ rpc = [p \in Invocations |-> "idle"]
    /\ yielded = [p \in Invocations |-> <<>>]

Init == InitVisitor /\ InitGraph /\ InitRun

Next ==
    \/ preorder
    \/ dispatch_list
    \/ visitSimpleStatement_call
    \/ visitFunctionDef_end
    \/ visitClosure_end
    \/ visitClassDef_end
    \/ _subgraph_parse_end

Spec == Init /\ [][Next]_vars

\* ------------------------------------------- a PathGraph used on its own
\* PathGraph.connect called with any two nodes, the same node twice included
PathGraph_connect ==
    /\ nconnect < MaxConnect
    /\ \E n1 \in GraphNodes : \E n2 \in GraphNodes :
          /\ pg' = connectGraph(pg, n1, n2)
          /\ ever' = ever \cup {n1, n2}
    /\ nconnect' = nconnect + 1
    /\ UNCHANGED <<visitorVars, runVars>>

NextGraph == PathGraph_connect

SpecGraph == Init /\ [][NextGraph]_vars

\* ------------------------------------------------------------ Scoring Pass
Thresholds == -1 .. MaxThreshold

\* the loop of CCOFP.run over visitor.graphs.values(): one record per graph
\* whose complexity exceeds the threshold, in the dict's order
RECURSIVE violations(_, _)
violations(gs, t) ==
    IF gs = <<>> THEN <<>>
    ELSE LET g == Head(gs).val
             rest == violations(Tail(gs), t)
         IN  IF complexity(g) > t
             THEN <<[lineno |-> g.lineno, column |-> g.column, entity |-> g.entity,
                     score |-> complexity(g)]>> \o rest
             ELSE rest

\* a caller gives the scoring pass its threshold in the class attribute, as
\* get_code_complexity does
set_max_complexity(p) ==
    /\ rpc[p] = "idle"
    /\ \E t \in Thresholds :
          /\ max_complexity' = t
          /\ own' = [own EXCEPT ![p] = t]
    /\ rpc' = [rpc EXCEPT ![p] = "configured"]
    /\ UNCHANGED <<seen, yielded>>
    /\ UNCHANGED <<visitorVars, graphVars>>

\* CCOFP.run, to its first yield or its end: a negative threshold returns at
\* once; otherwise self.tree, which no code of the class sets, is read
run(p) ==
    /\ rpc[p] = "configured"
    /\ seen' = [seen EXCEPT ![p] = max_complexity]
    /\ rpc' = [rpc EXCEPT ![p] = IF max_complexity < 0 THEN "returned"
                                   ELSE "AttributeError"]
    /\ UNCHANGED <<max_complexity, own, yielded>>
    /\ UNCHANGED <<visitorVars, graphVars>>

\* get_code_complexity: assert filename fails for the default filename '',
\* and ast.PyCF_ONLY_AST raises NameError otherwise; both come before the
\* assignment to CCOFP.max_complexity
get_code_complexity(p) ==
    /\ rpc[p] = "idle"
    /\ \E t \in Thresholds : own' = [own EXCEPT ![p] = t]
    /\ \E filename \in {"", "m.py"} :
          rpc' = [rpc EXCEPT ![p] = IF filename = "" THEN "AssertionError"
                                     ELSE "NameError"]
    /\ UNCHANGED <<max_complexity, seen, yielded>>
    /\ UNCHANGED <<visitorVars, graphVars>>

NextRun ==
    \E p \in Invocations :
        \/ set_max_complexity(p)
        \/ run(p)
        \/ get_code_complexity(p)

SpecRun == Init /\ [][NextRun]_vars

\* ------------------------------------------------------------------ claims
InFunction == stack # <<>> /\ stack[1].h = "function"

RunEnded(p) == rpc[p] \in {"returned", "AttributeError"}

\* position of the graph called name in the order of sealing
SealPos(name) == CHOOSE k \in DOMAIN sealed : sealed[k].name = name

\* C1: a conditional visited inside a function's graph, with or without an
\* else/elif branch, does not abort the traversal of the function, and when
\* it returns the graph scores exactly 1 more than before it, plus 1 for
\* each decision construct nested in it.
C1_IfAddsOne ==
    /\ (last.construct = "if" /\ ~last.orphan /\ last.n0 > 0)
          => last.after = last.before + 1 + last.inner
    /\ \A i \in DOMAIN stack :
          (InFunction /\ stack[i].construct = "if") => err = ""

\* C2: a loop visited inside a function's graph, with or without an
\* else-clause, does not abort the traversal of the function, and when it
\* returns the graph scores exactly 1 more than before it, plus 1 for each
\* decision construct nested in it.
C2_LoopAddsOne ==
    /\ (last.construct = "loop" /\ ~last.orphan /\ last.n0 > 0)
          => last.after = last.before + 1 + last.inner
    /\ \A i \in DOMAIN stack :
          (InFunction /\ stack[i].construct = "loop") => err = ""

\* C3: every registered graph with at least one node scores at least 1, a
\* registered graph with nodes and no decision construct scores exactly 1,
\* and a simple statement in the body of a top-level function does not keep
\* the function from being registered.
C3_ScoreAtLeastOne ==
    /\ \A i \in DOMAIN graphs :
          DOMAIN graphs[i].val.nodes # {} => complexity(graphs[i].val) >= 1
    /\ \A i \in DOMAIN sealed :
          (sealed[i].nnodes > 0 /\ sealed[i].ndec = 0) => sealed[i].score = 1
    /\ ~(err # "" /\ node.kind = "Assign" /\ Len(stack) = 1 /\ InFunction)

\* C4: a step that visits a simple statement while no graph is open leaves
\* graph, tail, classname and graphs as they were; and as long as only
\* simple statements (and the module root) have been visited, no graph is
\* registered and the scoring loop has nothing to report at any threshold.
SimpleStatementStep ==
    /\ lineno' = lineno + 1
    /\ (node' = node \/ node'.kind = "Assign")

OnlySimpleStatements == DOMAIN cache \subseteq {"Assign", "Module"}

C5_ScoringPass ==
    \A p \in Invocations :
        RunEnded(p) =>
            /\ rpc[p] = "returned"
            /\ yielded[p] = IF seen[p] < 0 THEN <<>>
                            ELSE violations(graphs, seen[p])

\* C6: the scoring loop meets the registered graphs in the order in which
\* they were sealed.
C6_SealOrder ==
    \A i \in DOMAIN graphs : \A j \in DOMAIN graphs :
        i < j => SealPos(graphs[i].val.name) < SealPos(graphs[j].val.name)

\* C7: after a traversal, graphs holds one entry per function definition
\* and per loop or conditional visited while no graph was open, and graphs
\* sealed under distinct entities are registered under distinct keys.
C7_OneGraphPerConstruct ==
    /\ (stack = <<>> /\ err = "") => Len(graphs) = ntop
    /\ \A i \in DOMAIN sealed : \A j \in DOMAIN sealed :
          sealed[i].entity # sealed[j].entity => sealed[i].key # sealed[j].key

\* C8: the threshold a scoring pass reads is the one its own invocation
\* was given, whatever the other invocation does meanwhile.
C8_OwnThreshold ==
    \A p \in Invocations : RunEnded(p) => seen[p] = own[p]

\* C9: no exception leaves the visitor.
C9_NeverRaises == err = ""

\* C10: after any sequence of connect calls the key set of the adjacency
\* mapping is exactly the set of nodes passed to connect as source or
\* destination.
C10_KeysAreEndpoints == DOMAIN pg.nodes = ever

\* several calls were made and a destination is a key with no successor
C10_Witness ==
    /\ nconnect >= 2
    /\ Cardinality(ever) >= 2
    /\ \E n \in ever : pg.nodes[n] = <<>>

\* the successor recorded last for node n in the adjacency mapping nodes
LastSucc(nodes, n) == nodes[n][Len(nodes[n])]

\* a visitFunctionDef call enters its closure branch / returns from it
ClosureEntryStep ==
    /\ Len(stack') = Len(stack) + 1
    /\ stack'[Len(stack')].h = "closure"

ClosureReturnStep ==
    /\ stack # <<>> /\ Top.h = "closure"
    /\ stack' = Rest

\* C11: a function definition visited while a graph is open leaves graphs
\* unchanged; at entry a fresh entry node is appended after the previous
\* tail; the traversal of its body is not aborted; and at return the body's
\* final tail and the entry node are both connected to one fresh join node,
\* which is the tail of the still open enclosing graph.
C11_ClosureJoins ==
    /\ [][ClosureEntryStep =>
             /\ graphs' = graphs
             /\ graph'.open /\ graph'.name = graph.name
             /\ tail' \notin DOMAIN graph.nodes
             /\ LastSucc(graph'.nodes, tail) = tail'
             /\ stack'[Len(stack')].pathnode = tail']_vars
    /\ [][ClosureReturnStep =>
             /\ graphs' = graphs
             /\ graph'.open /\ graph'.name = graph.name
             /\ tail' \notin DOMAIN graph.nodes
             /\ LastSucc(graph'.nodes, tail) = tail'
             /\ LastSucc(graph'.nodes, Top.pathnode) = tail']_vars
    /\ [](\A i \in DOMAIN stack : stack[i].h = "closure" => err = "")

\* the prefix the class handlers active in stk have built: className + "."
\* for each, outermost first
RECURSIVE ClassPrefix(_)
ClassPrefix(stk) ==
    IF stk = <<>> THEN ""
    ELSE LET fr == stk[Len(stk)]
         IN  ClassPrefix(SubSeq(stk, 1, Len(stk) - 1))
                \o (IF fr.h = "class" THEN fr.name \o "." ELSE "")

\* a visitClassDef call starts the traversal of its body / returns
ClassStep ==
    \/ /\ Len(stack') = Len(stack) + 1
       /\ stack'[Len(stack')].h = "class"
    \/ /\ stack # <<>> /\ Top.h = "class"
       /\ stack' = Rest

\* C12: at every moment the prefix is the concatenation of className + "."
\* over the class handlers that are active, outermost first, and each of
\* them has saved the prefix of the handlers around it: the prefix is
\* extended while a class body is traversed, is back to its value at entry
\* when the handler returns, and is empty after a complete traversal.  A
\* class handler's own steps add no node and no edge to any graph.
C12_ClassPrefixStack ==
    /\ [](/\ classname = ClassPrefix(stack)
          /\ \A i \in DOMAIN stack :
                stack[i].h = "class" =>
                    stack[i].old_classname = ClassPrefix(SubSeq(stack, 1, i - 1))
          /\ (stack = <<>> /\ err = "") => classname = "")
    /\ [][ClassStep => UNCHANGED <<graph, tail, graphs, nextId>>]_vars

\* a function nested in two classes was registered and both class handlers
\* have returned
C12_Witness ==
    /\ stack = <<>> /\ err = ""
    /\ classname = ""
    /\ \E i \in DOMAIN graphs : graphs[i].key \in {"A.B.-f", "B.A.-g"}

\* the handler that opened the graph (a top-level function or an orphan
\* loop or conditional) is still active
OwnerActive ==
    \E i \in DOMAIN stack : stack[i].h = "function" \/ stack[i].orphan

\* the handler that opened the graph returns
OwnerReturnStep ==
    /\ stack # <<>> /\ (Top.h = "function" \/ Top.orphan)
    /\ stack' = Rest

\* C13: when the handler that opened a graph returns, the graph is
\* registered under its name and graph and tail are both None; the graph is
\* open exactly while such a handler is active and exactly when the tail is
\* set, so none is open at module scope between constructs; the open graph
\* is never one of the registered graphs, and a registered graph changes
\* only by being replaced under its key by a newly sealed graph.
C13_ResetAfterSeal ==
    /\ [][OwnerReturnStep =>
             /\ Len(sealed') = Len(sealed) + 1
             /\ \E i \in DOMAIN graphs' :
                   /\ graphs'[i].key = sealed'[Len(sealed')].key
                   /\ graphs'[i].val.name = graph.name
             /\ graph' = NoGraph
             /\ tail' = None]_vars
    /\ [](/\ graph.open <=> tail # None
          /\ graph.open <=> OwnerActive
          /\ stack = <<>> => ~graph.open
          /\ graph.open => \A i \in DOMAIN graphs : graphs[i].val.name # graph.name)
    /\ [][\A i \in DOMAIN graphs :
             /\ i \in DOMAIN graphs'
             /\ \/ graphs'[i] = graphs[i]
                \/ /\ Len(sealed') = Len(sealed) + 1
                   /\ sealed'[Len(sealed')].key = graphs[i].key]_vars

\* a top-level function was sealed first and a simple statement was then
\* visited at module scope
C13_Witness ==
    /\ stack = <<>> /\ err = ""
    /\ Len(sealed) = 1 /\ Len(graphs) = 1
    /\ node.kind \in FuncKinds /\ node.lineno = 1
    /\ lineno = 3
    /\ ~graph.open /\ tail = None

\* dispatch_list hands a simple statement of a body to dispatch while a
\* graph is open
BodyStatementStep ==
    /\ stack # <<>> /\ err = "" /\ graph.open
    /\ lineno' = lineno + 1
    /\ node'.kind = "Assign"

\* C14: each simple statement of a body visited with an open graph is
\* dispatched without error and adds exactly one edge, from the tail before
\* it to its own fresh node, which is the tail after it; so the statements
\* of a body are chained in source order.
C14_SourceOrderEdges ==
    [][BodyStatementStep =>
          /\ err' = ""
          /\ tail' # tail
          /\ tail' \notin DOMAIN graph.nodes
          /\ DOMAIN graph'.nodes = DOMAIN graph.nodes \cup {tail, tail'}
          /\ LastSucc(graph'.nodes, tail) = tail'
          /\ complexity(graph') = (IF DOMAIN graph.nodes = {} THEN 1
                                   ELSE complexity(graph))]_vars

\* C15: every dispatch takes the next node of the tree in source order, so
\* no node is dispatched twice; and no handler whose node has a non-empty
\* else body is abandoned by an exception, so the statements of the else
\* body are dispatched rather than skipped.
C15_EveryNodeOnce ==
    /\ [][lineno' # lineno =>
             /\ lineno' = lineno + 1
             /\ (node' = node \/ node'.lineno = lineno)]_vars
    /\ [](\A i \in DOMAIN stack : stack[i].orelse => err = "")

\* num_edges of PathGraph.complexity
NumEdges(g) == SumLen(g.nodes, DOMAIN g.nodes)

\* the graph that was open before a step, as it is after the step: still
\* open, or just registered
GraphAfter ==
    IF graph'.open THEN graph'
    ELSE (CHOOSE e \in {graphs'[i] : i \in DOMAIN graphs'} :
             e.key = sealed'[Len(sealed')].key).val

\* connect calls a step makes on the open graph: one in appendPathNode when
\* a closure or a loop/conditional is entered or a simple statement is
\* handled with a tail set, two when a closure or a loop/conditional
\* returns (one per loose end)
ConnectCalls ==
    IF ClosureReturnStep THEN 2
    ELSE IF stack # <<>> /\ Top.h = "subgraph" /\ stack' = Rest
    THEN (IF Top.pathnode # None THEN 2 ELSE 0)
    ELSE IF /\ Len(stack') = Len(stack) + 1
            /\ stack'[Len(stack')].h \in {"closure", "subgraph"}
            /\ ~stack'[Len(stack')].orphan
    THEN (IF tail # None THEN 1 ELSE 0)
    ELSE IF stack' = stack /\ err' = "" /\ lineno' = lineno + 1
    THEN (IF tail # None THEN 1 ELSE 0)
    ELSE 0

\* C16: a step of the traversal keeps every edge recorded in the open graph
\* (each successor list only grows) and raises its edge count by the number
\* of connect calls the step makes; a graph starts with no edge, so a
\* registered graph's edge count is the number of connect calls made on it.
C16_NoEdgeDiscarded ==
    /\ [][graph.open =>
             /\ \A n \in DOMAIN graph.nodes :
                   /\ n \in DOMAIN GraphAfter.nodes
                   /\ Len(GraphAfter.nodes[n]) >= Len(graph.nodes[n])
                   /\ SubSeq(GraphAfter.nodes[n], 1, Len(graph.nodes[n]))
                         = graph.nodes[n]
             /\ NumEdges(GraphAfter) = NumEdges(graph) + ConnectCalls]_vars
    /\ [][(~graph.open /\ graph'.open) => NumEdges(graph') = 0]_vars

\* a registered graph holds a node that was the destination of two connect
\* calls and a node with two recorded successors
C16_Witness ==
    \E i \in DOMAIN graphs :
        LET nodes == graphs[i].val.nodes
        IN  /\ \E a \in DOMAIN nodes : Len(nodes[a]) >= 2
            /\ \E a \in DOMAIN nodes : \E b \in DOMAIN nodes :
                  /\ a # b
                  /\ nodes[a] # <<>> /\ nodes[b] # <<>>
                  /\ LastSucc(nodes, a) = LastSucc(nodes, b)

====
